---- MODULE Spec2Model ----
(***************************************************************************)
(* henry40408/mono: the TLS certificate checker (hcc/core CheckClient)     *)
(* and the two cron daemons that schedule work (cdu run_daemon and         *)
(* hcc/pushover main).                                                     *)
(*                                                                         *)
(* Spec        the CheckClient: construction, configuration, check_one     *)
(*             and check_many with the checks of one batch completing in   *)
(*             any order.                                                  *)
(* SpecClock   the CheckClient with its default configuration while the    *)
(*             wall clock advances between its operations.                 *)
(* SpecTwice   the same, with the grace period set at will, while the       *)
(*             caller keeps the result of one check_one to compare later   *)
(*             checks with it.                                             *)
(* SpecDaemon  the scheduling loops of cdu and hcc-pushover.               *)
(*                                                                         *)
(* Instants (chrono DateTime<Utc>) are milliseconds since the Unix epoch;  *)
(* timestamps (i64, DateTime::timestamp) are whole seconds.                *)
(***************************************************************************)
EXTENDS Integers, Sequences, FiniteSets, TLC

\* ------------------------------------------------------------------ bounds

\* Longest list of domain names handed to check_many.
MaxBatch == 2
\* Certificates expire at day boundaries 1..MaxCertDays after the epoch.
MaxCertDays == 3
\* grace_in_days is set to 0..MaxGrace (or left at its default).
MaxGrace == 1
\* The wall clock reads ClockStart + k half seconds, k in 0..MaxClockSteps.
MaxClockSteps == 2

\* Fire times a daemon takes from its schedule.
MaxTicks == 2
\* tokio's sleep returns 0..MaxOversleep ms after its deadline.
MaxOversleep == 1

\* --------------------------------------------------------------- constants

\* chrono: Duration::num_days is num_seconds() / 86400.
SecsPerDay == 86400
\* chrono: DateTime::timestamp is whole seconds; round_subsecs(0) rounds to them.
MillisPerSec == 1000
\* impl Default for CheckClient: grace_in_days: 7.
DefaultGraceInDays == 7
\* tokio::time::sleep(Duration::from_millis(999)) in both wait loops.
PollMillis == 999
\* ExponentialBackoff::from_millis(10)
BackoffBase == 10
\* .take(3)
Take == 3

VARIABLES
    utc,            \* the wall clock: what Utc::now() returns, in ms
    client,         \* the CheckClient: [checked_at, elapsed, grace_in_days]
    constructed_at, \* Utc::now() as read by CheckClient::default(), in ms
    call,           \* "idle" | "check_one" | "check_many" | "returned_one" | "returned_many"
    domain_names,   \* the argument of the call in progress
    tasks,          \* one entry per domain: the future check_one(domain), with
                    \* the instant `at` at which it ran
    ret,            \* what the call returned
    prev            \* a check_one the caller kept: its client, future and domain

clientVars == <<utc, client, constructed_at, call, domain_names, tasks, ret, prev>>

VARIABLES
    prog,           \* which daemon runs: "cdu" | "pushover" ("none": no daemon)
    pc,             \* where the daemon is: "schedule" | "wait" | "run" | "backoff" |
                    \* "exited" (main returned the error); "off": no daemon
    now,            \* Utc::now(), in ms
    datetime,       \* the fire time last taken from schedule.upcoming(Utc)
    tick,           \* how many fire times have been taken
    attempts,       \* calls of the unit of work made for this fire time
    retries,        \* delays taken from the retry strategy for this fire time
    outcome,        \* how the last call of the unit of work ended
    slept,          \* by how many ms the last sleep of the wait for `datetime`
                    \* overran its 999 ms; -1 while that wait has not slept
    started         \* how many times the work of a fire time has been begun

daemonVars ==
    <<prog, pc, now, datetime, tick, attempts, retries, outcome, slept, started>>

vars == <<clientVars, daemonVars>>

\* ------------------------------------------------------------------ inputs

ValidNames == {"a.test", "b.test"}
\* A string webpki::DNSNameRef::try_from_ascii_str rejects.
InvalidNames == {"not a name"}
Domains == ValidNames \cup InvalidNames

\* The first instant of the model's clock: two days after the epoch.
ClockStart == 2 * SecsPerDay * MillisPerSec
HalfSecond == MillisPerSec \div 2
NowChoices == {ClockStart + k * HalfSecond : k \in 0..MaxClockSteps}

\* not_after of the certificates servers present, as timestamps (seconds).
NotAfters == {k * SecsPerDay : k \in 1..MaxCertDays}

\* DER bytes of a certificate: either x509-parser rejects them, or they
\* parse to a certificate with the given validity.not_after.
Unparseable == [parses |-> FALSE, not_after |-> 0]
ParsedCert(t) == [parses |-> TRUE, not_after |-> t]
\* Some issuing certificate that follows the leaf in the chain.
Intermediate == ParsedCert((MaxCertDays + 1) * SecsPerDay)

\* What the network does to one check:
\*   connects   TcpStream::connect (resolve + connect) succeeds
\*   handshake  the TLS handshake, which rustls::Stream runs inside the
\*              first write, completes
\*   write      the bytes of the request are accepted
\*   peer       "none" (no peer certificates) or the certificate list
Net(c, h, w, p) == [connects |-> c, handshake |-> h, write |-> w, peer |-> p]
NoCerts == [some |-> FALSE, certs |-> <<>>]
SomeCerts(s) == [some |-> TRUE, certs |-> s]

NetBehaviours ==
    { Net(FALSE, FALSE, FALSE, NoCerts),
      Net(TRUE, FALSE, FALSE, NoCerts),
      Net(TRUE, TRUE, FALSE, SomeCerts(<<ParsedCert(SecsPerDay), Intermediate>>)),
      Net(TRUE, TRUE, TRUE, NoCerts),
      Net(TRUE, TRUE, TRUE, SomeCerts(<<>>)),
      Net(TRUE, TRUE, TRUE, SomeCerts(<<Unparseable, Intermediate>>)) }
    \cup { Net(TRUE, TRUE, TRUE, SomeCerts(<<ParsedCert(t), Intermediate>>)) : t \in NotAfters }

\* What the two Instant::now() around the forced write measure, in ms.
WriteMillis == {0, 1}

\* ------------------------------------------------------------ CheckResult

NoElapsed == [some |-> FALSE, ms |-> 0]
SomeElapsed(ms) == [some |-> TRUE, ms |-> ms]

CheckResult(state, checked_at, days, domain_name, not_after, elapsed) ==
    [state |-> state, checked_at |-> checked_at, days |-> days,
     domain_name |-> domain_name, not_after |-> not_after, elapsed |-> elapsed]

timestamp(t) == t \div MillisPerSec

\* CheckResult::expired(domain_name, &checked_at)
expired(domain_name, checked_at) ==
    CheckResult("Expired", timestamp(checked_at), 0, domain_name, 0, NoElapsed)

\* CheckResult::default()
default_result == CheckResult("Unknown", 0, 0, "", 0, NoElapsed)

ResultOk(v) == [ok |-> TRUE, val |-> v, err |-> ""]
ResultErr(e) == [ok |-> FALSE, val |-> default_result, err |-> e]

\* ------------------------------------------------------------------ chrono

trunc_subsecs(t) == (t \div MillisPerSec) * MillisPerSec
\* Utc::now().round_subsecs(0): to the nearest whole second, halves up.
round_subsecs(t) ==
    LET delta_down == t % MillisPerSec
        delta_up == MillisPerSec - delta_down
    IN  IF delta_down > 0
        THEN IF delta_up <= delta_down THEN t + delta_up ELSE t - delta_down
        ELSE t

\* Rust's integer division: the quotient truncated toward zero.
TruncDiv(a, b) == IF a >= 0 THEN a \div b ELSE -((-a) \div b)

num_seconds(duration) == TruncDiv(duration, MillisPerSec)

num_days_floor(duration) == num_seconds(duration) \div SecsPerDay
num_days_hours(duration) == TruncDiv(num_seconds(duration), 3600)
\* Duration::num_days
num_days(duration) == TruncDiv(num_seconds(duration), SecsPerDay)

\* Utc.timestamp(secs, 0)
UtcTimestamp(secs) == secs * MillisPerSec

\* ------------------------------------------------------------- CheckClient

\* impl Default for CheckClient, with Utc::now() = utc_now
Default(utc_now) ==
    [checked_at |-> round_subsecs(utc_now), elapsed |-> FALSE,
     grace_in_days |-> DefaultGraceInDays]

try_from_ascii_str(domain_name) == domain_name \in ValidNames

\* tls.write(...): rustls::Stream completes the handshake, then writes.
tls_write_ok(net) == net.handshake /\ net.write

classify_ge(days, grace_in_days) == IF days >= grace_in_days THEN "Ok" ELSE "Warning"
classify_off(days, grace_in_days) == IF days > grace_in_days + 1 THEN "Ok" ELSE "Warning"
\* let state = if days > self.grace_in_days { Ok } else { Warning }
classify(days, grace_in_days) == IF days > grace_in_days THEN "Ok" ELSE "Warning"

on_write_error_err(self, domain_name) == ResultErr("write failed")
\* Err(_) => return Ok(CheckResult::expired(domain_name, &self.checked_at))
on_write_error(self, domain_name) == ResultOk(expired(domain_name, self.checked_at))

on_connect_error_expired(self, domain_name) == ResultOk(expired(domain_name, self.checked_at))
\* TcpStream::connect(...)?
on_connect_error(self, domain_name) == ResultErr("connect failed")

on_missing_certificate_default(domain_name, context) == ResultOk(default_result)
\* .with_context(|| format!("no peer certificates found for {0}", ..))?
\* .with_context(|| format!("no certificate found for {0}", ..))?
on_missing_certificate(domain_name, context) == ResultErr(context)

on_parse_error_err(self, domain_name) == ResultErr("certificate does not parse")
\* Err(_) => return Ok(CheckResult::default())
on_parse_error(self, domain_name) == ResultOk(default_result)

\* CheckClient::check_one, against a network that behaves as `net` and a
\* write that takes `ms` milliseconds.
check_one(self, domain_name, net, ms) ==
    IF ~try_from_ascii_str(domain_name) THEN ResultErr("invalid DNS name")
    ELSE IF ~net.connects THEN on_connect_error(self, domain_name)
    ELSE IF ~tls_write_ok(net) THEN on_write_error(self, domain_name)
    ELSE IF ~net.peer.some
         THEN on_missing_certificate(domain_name, "no peer certificates found")
    ELSE IF net.peer.certs = <<>>
         THEN on_missing_certificate(domain_name, "no certificate found")
    ELSE LET certificate == Head(net.peer.certs) IN
         IF ~certificate.parses THEN on_parse_error(self, domain_name)
         ELSE LET not_after == UtcTimestamp(certificate.not_after)
                  duration == not_after - self.checked_at
                  days == num_days(duration)
                  state == classify(days, self.grace_in_days)
              IN  ResultOk(CheckResult(state, timestamp(self.checked_at),
                                       num_days(duration), domain_name,
                                       timestamp(not_after),
                                       IF self.elapsed THEN SomeElapsed(ms)
                                       ELSE NoElapsed))

\* A future of check_many's task list: not yet polled, or completed against
\* the network behaviour `net` with the output `out`.
Pending ==
    [done |-> FALSE, at |-> 0, net |-> Net(FALSE, FALSE, FALSE, NoCerts),
     out |-> ResultErr("")]
Ready(at, net, out) == [done |-> TRUE, at |-> at, net |-> net, out |-> out]

NoReturn == [ok |-> FALSE, val |-> <<>>, err |-> ""]

\* try_join_all's output: the outputs of the futures, in the order of the list.
collect(done, i) == [ok |-> TRUE, val |-> [j \in 1..Len(done) |-> done[j].out.val], err |-> ""]

join_ignoring_errors(done, i) ==
    LET oks == SelectSeq(done, LAMBDA t : t.done /\ t.out.ok)
    IN  IF \A j \in 1..Len(done) : done[j].done
        THEN [ok |-> TRUE, val |-> [j \in 1..Len(oks) |-> oks[j].out.val], err |-> ""]
        ELSE NoReturn
\* futures::future::try_join_all(tasks).await?, after future i completed:
\* the first error ends the join; the last completion yields the outputs.
try_join_all(done, i) ==
    IF ~done[i].out.ok THEN [ok |-> FALSE, val |-> <<>>, err |-> done[i].out.err]
    ELSE IF \A j \in 1..Len(done) : done[j].done THEN collect(done, i)
    ELSE NoReturn

Finished(r) == r # NoReturn

\* Nothing kept, and what the caller keeps of a check_one: the client it was
\* called on, the domain name, and the future with its output.
NoPrev == [some |-> FALSE, client |-> Default(0), domain_name |-> "", task |-> Pending]
Kept(self, domain_name, task) ==
    [some |-> TRUE, client |-> self, domain_name |-> domain_name, task |-> task]

\* -------------------------------------------------------------- operations

ClientInit ==
    /\ utc \in NowChoices
    /\ constructed_at = utc
    /\ client = Default(constructed_at)
    /\ call = "idle"
    /\ domain_names = <<>>
    /\ tasks = <<>>
    /\ ret = NoReturn
    /\ prev = NoPrev

\* let client = CheckClient::default();
NewClient(utc_now) ==
    /\ call = "idle"
    /\ utc_now = utc
    /\ constructed_at' = utc_now
    /\ client' = Default(utc_now)
    /\ UNCHANGED <<utc, call, domain_names, tasks, ret, prev, daemonVars>>

\* client.grace_in_days = g;
SetGrace(g) ==
    /\ call = "idle"
    /\ client' = [client EXCEPT !.grace_in_days = g]
    /\ UNCHANGED <<utc, constructed_at, call, domain_names, tasks, ret, prev, daemonVars>>

\* client.elapsed = true;
SetElapsed ==
    /\ call = "idle"
    /\ ~client.elapsed
    /\ client' = [client EXCEPT !.elapsed = TRUE]
    /\ UNCHANGED <<utc, constructed_at, call, domain_names, tasks, ret, prev, daemonVars>>

CheckOneRefreshing(domain_name, net, ms) ==
    /\ call = "idle"
    /\ LET out == check_one([client EXCEPT !.checked_at = round_subsecs(utc)],
                            domain_name, net, ms) IN
        /\ tasks' = <<Ready(utc, net, out)>>
        /\ ret' = [ok |-> out.ok, val |-> IF out.ok THEN <<out.val>> ELSE <<>>, err |-> out.err]
    /\ domain_names' = <<domain_name>>
    /\ call' = "returned_one"
    /\ UNCHANGED <<utc, client, constructed_at, prev, daemonVars>>
\* client.check_one(domain_name).await
CheckOne(domain_name, net, ms) ==
    /\ call = "idle"
    /\ LET out == check_one(client, domain_name, net, ms) IN
        /\ tasks' = <<Ready(utc, net, out)>>
        /\ ret' = [ok |-> out.ok, val |-> IF out.ok THEN <<out.val>> ELSE <<>>, err |-> out.err]
    /\ domain_names' = <<domain_name>>
    /\ call' = "returned_one"
    /\ UNCHANGED <<utc, client, constructed_at, prev, daemonVars>>

CheckManyRefreshing(names) ==
    /\ call = "idle"
    /\ client' = [client EXCEPT !.checked_at = round_subsecs(utc)]
    /\ domain_names' = names
    /\ tasks' = [i \in 1..Len(names) |-> Pending]
    /\ IF names = <<>>
       THEN call' = "returned_many" /\ ret' = [ok |-> TRUE, val |-> <<>>, err |-> ""]
       ELSE call' = "check_many" /\ ret' = NoReturn
    /\ UNCHANGED <<utc, constructed_at, prev, daemonVars>>
\* client.check_many(names): one future per domain name, none polled yet.
CheckMany(names) ==
    /\ call = "idle"
    /\ domain_names' = names
    /\ tasks' = [i \in 1..Len(names) |-> Pending]
    /\ IF names = <<>>
       THEN call' = "returned_many" /\ ret' = [ok |-> TRUE, val |-> <<>>, err |-> ""]
       ELSE call' = "check_many" /\ ret' = NoReturn
    /\ UNCHANGED <<utc, client, constructed_at, prev, daemonVars>>

\* The join polls future i, which runs check_one(domain_names[i]) to its end.
Poll(i, net, ms) ==
    /\ call = "check_many"
    /\ i \in 1..Len(tasks)
    /\ ~tasks[i].done
    /\ LET out == check_one(client, domain_names[i], net, ms)
           done == [tasks EXCEPT ![i] = Ready(utc, net, out)]
           r == try_join_all(done, i)
       IN  /\ tasks' = done
           /\ ret' = r
           /\ call' = IF Finished(r) THEN "returned_many" ELSE "check_many"
    /\ UNCHANGED <<utc, client, constructed_at, domain_names, prev, daemonVars>>

\* The caller takes the returned value; the client is free for the next call.
Return ==
    /\ call \in {"returned_one", "returned_many"}
    /\ call' = "idle"
    /\ domain_names' = <<>>
    /\ tasks' = <<>>
    /\ ret' = NoReturn
    /\ UNCHANGED <<utc, client, constructed_at, prev, daemonVars>>

BatchInputs == UNION {[1..n -> Domains] : n \in 0..MaxBatch}

Next ==
    \/ NewClient(utc)
    \/ \E g \in 0..MaxGrace : SetGrace(g)
    \/ SetElapsed
    \/ \E d \in Domains, net \in NetBehaviours, ms \in WriteMillis : CheckOne(d, net, ms)
    \/ \E names \in BatchInputs : CheckMany(names)
    \/ \E i \in 1..MaxBatch, net \in NetBehaviours, ms \in WriteMillis : Poll(i, net, ms)
    \/ Return

\* No daemon runs beside the client.
NoDaemon ==
    /\ prog = "none"
    /\ pc = "off"
    /\ now = 0
    /\ datetime = 0
    /\ tick = 0
    /\ attempts = 0
    /\ retries = 0
    /\ outcome = "none"
    /\ slept = -1
    /\ started = 0

Init == ClientInit /\ NoDaemon

Spec == Init /\ [][Next]_vars

\* let first = client.check_one(domain_name).await; the caller keeps what
\* the call returned, and the client is free for the next call.
Keep ==
    /\ call = "returned_one"
    /\ ~prev.some
    /\ prev' = Kept(client, domain_names[1], tasks[1])
    /\ call' = "idle"
    /\ domain_names' = <<>>
    /\ tasks' = <<>>
    /\ ret' = NoReturn
    /\ UNCHANGED <<utc, client, constructed_at, daemonVars>>

\* Time passes: the wall clock advances by half a second.
Tick ==
    /\ utc < ClockStart + MaxClockSteps * HalfSecond
    /\ utc' = utc + HalfSecond
    /\ UNCHANGED <<client, constructed_at, call, domain_names, tasks, ret, prev, daemonVars>>

\* The operations of a client left at its default configuration, and the clock.
NextClock ==
    \/ Tick
    \/ NewClient(utc)
    \/ \E d \in Domains, net \in NetBehaviours, ms \in WriteMillis : CheckOne(d, net, ms)
    \/ \E names \in BatchInputs : CheckMany(names)
    \/ \E i \in 1..MaxBatch, net \in NetBehaviours, ms \in WriteMillis : Poll(i, net, ms)
    \/ Return

SpecClock == Init /\ [][NextClock]_vars

\* check_one called time and again, on one client or on a new one, with the
\* grace period set by the caller and the clock advancing.
NextTwice ==
    \/ Tick
    \/ NewClient(utc)
    \/ \E g \in 0..MaxGrace : SetGrace(g)
    \/ \E d \in Domains, net \in NetBehaviours, ms \in WriteMillis : CheckOne(d, net, ms)
    \/ Keep
    \/ Return

SpecTwice == Init /\ [][NextTwice]_vars

\* ----------------------------------------------------------------- daemons

\* The cron expression fires every two seconds, on the even seconds.
Period == 2 * MillisPerSec

\* schedule.upcoming(Utc): the first fire time after `previous`.
next_after(previous) == (previous \div Period + 1) * Period

\* How a call of the unit of work (cdu.run(), check_domain_names) ends.
Outcomes == {"Ok", "ApiFailure", "PublicIPError", "Other"}
\* How long it takes, in ms: an instant, or longer than a period.
RunMillis == {1, Period + 1}

should_retry_any(e) == TRUE
\* |e: &anyhow::Error| e.is::<ApiFailure>() || e.is::<PublicIPError>()
should_retry(e) == e \in {"ApiFailure", "PublicIPError"}

RECURSIVE Pow(_, _)
Pow(b, n) == IF n = 0 THEN 1 ELSE b * Pow(b, n - 1)

\* ExponentialBackoff::from_millis(10): the n-th delay (n = 0, 1, ...).
backoff_delay(n) == Pow(BackoffBase, n + 1)

\* jitter: a random share of the delay; its extremes, in whole ms.
jitter(delay) == {0, delay - 1}

strategy_has_next_one_more(n) == n < Take + 1
\* .take(3): the strategy yields a delay while fewer than 3 were taken.
strategy_has_next(n) == n < Take

after_attempt_again(e, n) ==
    IF e = "Ok" THEN "wait"
    ELSE IF should_retry(e) /\ strategy_has_next(n) THEN "backoff"
    ELSE "exited"
\* RetryIf: what follows a call of the action that ended as `e`, with n
\* delays already taken from the strategy. The error of a call that is not
\* retried leaves run_daemon through `.await?`, and main with it.
after_attempt(e, n) ==
    IF e = "Ok" THEN "schedule"
    ELSE IF should_retry(e) /\ strategy_has_next(n) THEN "backoff"
    ELSE "exited"

\* check_domain_names(&opts, &domain_names).await?
after_check(e) == IF e = "Ok" THEN "schedule" ELSE "exited"

IdleClient ==
    /\ utc = ClockStart
    /\ constructed_at = utc
    /\ client = Default(constructed_at)
    /\ call = "idle"
    /\ domain_names = <<>>
    /\ tasks = <<>>
    /\ ret = NoReturn
    /\ prev = NoPrev

InitDaemon ==
    /\ IdleClient
    /\ prog \in {"cdu", "pushover"}
    /\ pc = "schedule"
    /\ now \in {0, PollMillis}
    /\ datetime = now
    /\ tick = 0
    /\ attempts = 0
    /\ retries = 0
    /\ outcome = "none"
    /\ slept = -1
    /\ started = 0

\* for datetime in schedule.upcoming(Utc) { info!(...)
Upcoming ==
    /\ pc = "schedule"
    /\ tick < MaxTicks
    /\ datetime' = next_after(datetime)
    /\ tick' = tick + 1
    /\ pc' = "wait"
    /\ slept' = -1
    /\ UNCHANGED <<prog, now, attempts, retries, outcome, started, clientVars>>

WaitBreakAtFireTime ==
    /\ pc = "wait"
    /\ now >= datetime
    /\ pc' = "run"
    /\ attempts' = 0
    /\ retries' = 0
    /\ outcome' = "none"
    /\ started' = started + 1
    /\ UNCHANGED <<prog, now, datetime, tick, slept, clientVars>>
\* loop { if Utc::now() > datetime { break; } ... }, then the set-up of the
\* work of this fire time (a fresh strategy, Instant::now()).
WaitBreak ==
    /\ pc = "wait"
    /\ now > datetime
    /\ pc' = "run"
    /\ attempts' = 0
    /\ retries' = 0
    /\ outcome' = "none"
    /\ started' = started + 1
    /\ UNCHANGED <<prog, now, datetime, tick, slept, clientVars>>

\* ... else { tokio::time::sleep(Duration::from_millis(999)).await; } }
WaitSleep(over) ==
    /\ pc = "wait"
    /\ ~(now > datetime)
    /\ now' = now + PollMillis + over
    /\ slept' = over
    /\ UNCHANGED <<prog, pc, datetime, tick, attempts, retries, outcome, started,
                   clientVars>>

\* cdu: RetryIf calls cdu.run(), which takes `ms` and ends as `e`.
CduRun(e, ms) ==
    /\ prog = "cdu"
    /\ pc = "run"
    /\ attempts' = attempts + 1
    /\ outcome' = e
    /\ now' = now + ms
    /\ pc' = after_attempt(e, retries)
    /\ UNCHANGED <<prog, datetime, tick, retries, slept, started, clientVars>>

\* cdu: RetryIf takes the next delay from the strategy and sleeps it.
Backoff(delay) ==
    /\ prog = "cdu"
    /\ pc = "backoff"
    /\ delay \in jitter(backoff_delay(retries))
    /\ retries' = retries + 1
    /\ now' = now + delay
    /\ pc' = "run"
    /\ UNCHANGED <<prog, datetime, tick, attempts, outcome, slept, started, clientVars>>

\* hcc-pushover: check_domain_names(...).await?, once per fire time.
PushoverRun(e, ms) ==
    /\ prog = "pushover"
    /\ pc = "run"
    /\ attempts' = attempts + 1
    /\ outcome' = e
    /\ now' = now + ms
    /\ pc' = after_check(e)
    /\ UNCHANGED <<prog, datetime, tick, retries, slept, started, clientVars>>

BackoffDelays == UNION {jitter(backoff_delay(n)) : n \in 0..Take}

NextDaemon ==
    \/ Upcoming
    \/ WaitBreak
    \/ \E over \in 0..MaxOversleep : WaitSleep(over)
    \/ \E e \in Outcomes, ms \in RunMillis : CduRun(e, ms)
    \/ \E delay \in BackoffDelays : Backoff(delay)
    \/ \E e \in Outcomes, ms \in RunMillis : PushoverRun(e, ms)

SpecDaemon == InitDaemon /\ [][NextDaemon]_vars

\* ------------------------------------------------ properties of the client

\* The checks that have run in the call in progress or just returned.
Ran == {i \in 1..Len(tasks) : tasks[i].done}

\* Check i got as far as a parsed leaf certificate: the name was accepted,
\* the connection opened, the write succeeded and the first peer
\* certificate parsed.
Parsed(i) ==
    /\ tasks[i].done
    /\ try_from_ascii_str(domain_names[i])
    /\ tasks[i].net.connects
    /\ tasks[i].net.handshake /\ tasks[i].net.write
    /\ tasks[i].net.peer.some
    /\ tasks[i].net.peer.certs # <<>>
    /\ Head(tasks[i].net.peer.certs).parses

\* Check i reached the forced write, and the write failed.
WriteFailed(i) ==
    /\ tasks[i].done
    /\ try_from_ascii_str(domain_names[i])
    /\ tasks[i].net.connects
    /\ ~(tasks[i].net.handshake /\ tasks[i].net.write)

\* C1: a check whose write succeeded and whose leaf certificate parsed
\* with days_remaining = d under grace period G returns a result whose state
\* is Ok exactly when d > G and Warning exactly when d <= G, and never
\* Expired; d may be negative.
C1_StateByGrace ==
    \A i \in Ran : Parsed(i) =>
        LET r == tasks[i].out.val IN
        /\ tasks[i].out.ok
        /\ (r.state = "Ok") <=> (r.days > client.grace_in_days)
        /\ (r.state = "Warning") <=> (r.days <= client.grace_in_days)
        /\ r.state # "Expired"

\* A batch in which one parsed certificate is Ok and another, already past
\* its not_after by more than a day (d < 0), is Warning.
C1_Witness ==
    /\ \E i \in Ran : Parsed(i) /\ tasks[i].out.val.state = "Ok"
    /\ \E i \in Ran : Parsed(i) /\ tasks[i].out.val.days < 0
                      /\ tasks[i].out.val.state = "Warning"

\* C2: whenever the forced write fails, check_one returns a result (not an
\* error) with state Expired and not_after 0, whatever grace_in_days and the
\* timing flag are and whatever certificate the peer holds.
C2_WriteFailureIsExpired ==
    \A i \in Ran : WriteFailed(i) =>
        /\ tasks[i].out.ok
        /\ tasks[i].out.val.state = "Expired"
        /\ tasks[i].out.val.not_after = 0

\* A failed write under a client with timing on and a non-default grace
\* period, against a peer that holds a parseable certificate.
C2_Witness ==
    \E i \in Ran :
        /\ WriteFailed(i)
        /\ client.elapsed
        /\ client.grace_in_days # DefaultGraceInDays
        /\ tasks[i].net.peer.some

\* C3 (as claimed): when check_many returns results, there are as many as
\* input domains and the i-th result carries the i-th input domain name.
C3_ResultsNamedInInputOrder ==
    (call = "returned_many" /\ ret.ok) =>
        /\ Len(ret.val) = Len(domain_names)
        /\ \A i \in 1..Len(domain_names) : ret.val[i].domain_name = domain_names[i]

\* What the join does guarantee: the i-th result is the output of the i-th
\* future, whatever order the futures completed in.
ResultsInInputOrder ==
    (call = "returned_many" /\ ret.ok) =>
        /\ Len(ret.val) = Len(domain_names)
        /\ \A i \in 1..Len(domain_names) : ret.val[i] = tasks[i].out.val

\* C4: check_many returns results only when every domain's check returned
\* a result; one check returning an error makes check_many return that error
\* and no results, whatever the other checks returned.
C4_OneErrorFailsBatch ==
    /\ call = "returned_many" =>
        /\ ret.ok <=> (\A i \in 1..Len(tasks) : tasks[i].done /\ tasks[i].out.ok)
        /\ (\E i \in Ran : ~tasks[i].out.ok) => (~ret.ok /\ ret.val = <<>>)
    /\ call = "check_many" => (ret = NoReturn /\ \A i \in Ran : tasks[i].out.ok)

\* A batch that failed although another of its checks had returned a result.
C4_Witness ==
    /\ call = "returned_many"
    /\ ~ret.ok
    /\ \E i \in Ran : tasks[i].out.ok

\* C5 (as claimed): a check whose name resolution, connect or TLS handshake
\* fails returns an error, never a result.
C5_ConnectivityFailureIsError ==
    \A i \in Ran :
        (\/ ~try_from_ascii_str(domain_names[i])
         \/ ~tasks[i].net.connects
         \/ ~tasks[i].net.handshake) => ~tasks[i].out.ok

\* C5 (amended): a rejected name or a failed resolve/connect returns an
\* error; a failed handshake, which surfaces in the forced write, returns
\* the Expired result.
C5_ConnectFailureIsError ==
    \A i \in Ran :
        /\ (~try_from_ascii_str(domain_names[i]) \/ ~tasks[i].net.connects)
              => ~tasks[i].out.ok
        /\ (try_from_ascii_str(domain_names[i]) /\ tasks[i].net.connects
              /\ ~tasks[i].net.handshake)
              => (tasks[i].out.ok /\ tasks[i].out.val.state = "Expired")

\* A check_one call that failed to connect.
C5_Witness ==
    /\ call = "returned_one"
    /\ try_from_ascii_str(domain_names[1])
    /\ ~tasks[1].net.connects
    /\ ~ret.ok

\* C6 (as claimed): with grace_in_days = d the state is Ok, with d + 1 it is
\* Warning.
C6_BoundaryAsClaimed ==
    \A i \in Ran : Parsed(i) =>
        LET r == tasks[i].out.val IN
        /\ client.grace_in_days = r.days => r.state = "Ok"
        /\ client.grace_in_days = r.days + 1 => r.state = "Warning"

\* C6 (amended): with grace_in_days = d - 1 the state is Ok; with
\* grace_in_days = d, and with d + 1, it is Warning.
C6_Boundary ==
    \A i \in Ran : Parsed(i) =>
        LET r == tasks[i].out.val IN
        /\ client.grace_in_days = r.days - 1 => r.state = "Ok"
        /\ client.grace_in_days = r.days => r.state = "Warning"
        /\ client.grace_in_days = r.days + 1 => r.state = "Warning"

\* A parsed certificate checked with grace_in_days equal to its
\* days_remaining.
C6_Witness ==
    \E i \in Ran : Parsed(i) /\ client.grace_in_days = tasks[i].out.val.days

\* d is the number of complete days in the interval of `secs` seconds.
CompleteDays(d, secs) ==
    IF secs >= 0
    THEN d * SecsPerDay <= secs /\ secs < (d + 1) * SecsPerDay
    ELSE (d - 1) * SecsPerDay < secs /\ secs <= d * SecsPerDay

Leaf(i) == Head(tasks[i].net.peer.certs)
SecondsLeft(i) == Leaf(i).not_after - timestamp(client.checked_at)

\* C11 (as claimed): days_remaining is floor((not_after - checked_at) / 1
\* day) for every parsed certificate, also when not_after is earlier than
\* checked_at.
C11_DaysAreFloor ==
    \A i \in Ran : Parsed(i) =>
        tasks[i].out.val.days = SecondsLeft(i) \div SecsPerDay

\* C11 (amended): days_remaining is (not_after - checked_at) / 1 day with
\* the fraction discarded: the floor when not_after is not earlier than
\* checked_at, the ceiling (rounding toward zero) when it is earlier.
C11_DaysTruncateTowardZero ==
    \A i \in Ran : Parsed(i) =>
        LET d == tasks[i].out.val.days IN
        /\ SecondsLeft(i) >= 0 => d = SecondsLeft(i) \div SecsPerDay
        /\ SecondsLeft(i) < 0 => d = -((-SecondsLeft(i)) \div SecsPerDay)

\* A certificate whose not_after is earlier than checked_at by a number of
\* seconds that is no whole number of days.
C11_Witness ==
    \E i \in Ran :
        /\ Parsed(i)
        /\ SecondsLeft(i) < 0
        /\ SecondsLeft(i) % SecsPerDay # 0

\* Check i reached the parser, and the leaf certificate did not parse.
ParseFailed(i) ==
    /\ tasks[i].done
    /\ try_from_ascii_str(domain_names[i])
    /\ tasks[i].net.connects
    /\ tasks[i].net.handshake /\ tasks[i].net.write
    /\ tasks[i].net.peer.some
    /\ tasks[i].net.peer.certs # <<>>
    /\ ~Leaf(i).parses

\* C13: when the write succeeds and the leaf certificate does not parse,
\* check_one returns a result (not an error) with not_after = 0 whose state
\* is neither Ok nor Expired, so the batch it belongs to is not aborted by
\* it: a batch fails only by a check that returned an error.
C13_ParseFailureIsNeutralResult ==
    /\ \A i \in Ran : ParseFailed(i) =>
          /\ tasks[i].out.ok
          /\ tasks[i].out.val.not_after = 0
          /\ tasks[i].out.val.state \notin {"Ok", "Expired"}
    /\ (call = "returned_many" /\ ~ret.ok) =>
          \E i \in Ran : ~ParseFailed(i) /\ ~tasks[i].out.ok

\* A batch that returned its results although the certificate of one of
\* its domains did not parse.
C13_Witness ==
    /\ call = "returned_many"
    /\ ret.ok
    /\ Len(ret.val) > 1
    /\ \E i \in Ran : ParseFailed(i)

\* Check i wrote its request, and the session holds no peer certificate:
\* none at all, or an empty list.
NoPeerCertificate(i) ==
    /\ tasks[i].done
    /\ try_from_ascii_str(domain_names[i])
    /\ tasks[i].net.connects
    /\ tasks[i].net.handshake /\ tasks[i].net.write
    /\ (~tasks[i].net.peer.some \/ tasks[i].net.peer.certs = <<>>)

\* C14: when the write succeeds and the session holds no peer certificate,
\* check_one returns an error, not a result, and a check_many batch with
\* that domain fails.
C14_NoPeerCertificateIsError ==
    \A i \in Ran : NoPeerCertificate(i) =>
        /\ ~tasks[i].out.ok
        /\ call \in {"returned_one", "returned_many"}
        /\ ~ret.ok
        /\ ret.val = <<>>

\* A batch failed by a domain that presented an empty certificate list,
\* after another of its checks had returned a result.
C14_Witness ==
    /\ call = "returned_many"
    /\ \E i \in Ran : NoPeerCertificate(i) /\ tasks[i].net.peer.some
    /\ \E i \in Ran : tasks[i].out.ok

\* Check i returned a result that carries the client's checked_at: one built
\* by check_one itself (Ok, Warning) or by CheckResult::expired.
Stamped(i) ==
    /\ tasks[i].done
    /\ tasks[i].out.ok
    /\ tasks[i].out.val.state \in {"Ok", "Warning", "Expired"}

\* C12 (as claimed): checked_at of a returned result is the instant at which
\* that check ran, rounded down to whole seconds:
\* checked_at <= the instant the check ran < checked_at + 1 second.
C12_CheckedAtIsRunInstantTruncated ==
    \A i \in Ran : Stamped(i) =>
        /\ tasks[i].out.val.checked_at * MillisPerSec <= tasks[i].at
        /\ tasks[i].at < (tasks[i].out.val.checked_at + 1) * MillisPerSec

\* C12 (amended): checked_at of a returned result is the instant at which
\* the client was constructed, rounded to the nearest whole second (halves
\* up): checked_at - 0.5 s <= construction < checked_at + 0.5 s. The check
\* ran at or after the construction, any time later.
C12_CheckedAtIsConstructionRounded ==
    \A i \in Ran : Stamped(i) =>
        LET checked_at == tasks[i].out.val.checked_at * MillisPerSec IN
        /\ checked_at - HalfSecond <= constructed_at
        /\ constructed_at < checked_at + HalfSecond
        /\ constructed_at <= tasks[i].at

\* A result whose checked_at is later than the instant its check ran (the
\* construction instant was rounded up), and one whose check ran a second
\* or more after its checked_at.
C12_Witness ==
    /\ \E i \in Ran :
          /\ Stamped(i)
          /\ tasks[i].out.val.checked_at * MillisPerSec > tasks[i].at
    \/ \E i \in Ran :
          /\ Stamped(i)
          /\ tasks[i].at >= (tasks[i].out.val.checked_at + 1) * MillisPerSec

\* C18: checked_at is fixed when the client is constructed and check_one and
\* check_many never update it: every Ok, Warning and Expired result of a
\* batch or of a later call carries the checked_at the client was
\* constructed with, and days is computed against it, whenever the check ran.
C18_CheckedAtFixedAtConstruction ==
    /\ client.checked_at = round_subsecs(constructed_at)
    /\ \A i \in Ran : Stamped(i) =>
          tasks[i].out.val.checked_at = timestamp(round_subsecs(constructed_at))
    /\ \A i \in Ran : Parsed(i) =>
          tasks[i].out.val.days =
              num_days((Leaf(i).not_after
                        - timestamp(round_subsecs(constructed_at))) * MillisPerSec)

\* A batch whose two checks ran a second apart, the later one in another
\* second than the construction of the client, both with a stamped result.
C18_Witness ==
    /\ call = "returned_many"
    /\ ret.ok
    /\ \E i, j \in Ran :
          /\ Stamped(i) /\ Stamped(j)
          /\ tasks[j].at >= tasks[i].at + MillisPerSec
          /\ timestamp(round_subsecs(tasks[j].at)) # tasks[j].out.val.checked_at
          /\ tasks[i].out.val.checked_at = tasks[j].out.val.checked_at

\* check_one has returned a result for a domain for which the caller kept
\* an earlier result, the server behaving as it did then (the certificate
\* is unchanged) and the grace period being the same.
Repeated ==
    /\ prev.some
    /\ call = "returned_one"
    /\ domain_names[1] = prev.domain_name
    /\ tasks[1].net = prev.task.net
    /\ client.grace_in_days = prev.client.grace_in_days
    /\ tasks[1].out.ok

Earlier == prev.task.out.val
Later == tasks[1].out.val

TickFailed ==
    /\ attempts > 0
    /\ outcome # "Ok"
    /\ pc # "backoff" /\ pc # "run"

\* C8 (as claimed): the failure of one tick's work is confined to that
\* tick: the process does not terminate, it goes on to the next fire time.
C8_FailedTickDoesNotEndProcess ==
    TickFailed => pc # "exited"

\* C9 (as claimed): the unit of work is attempted at most 3 times per tick.
C9_AtMostThreeAttempts ==
    attempts <= 3

\* C9 (amended): the unit of work is attempted at most 4 times per tick:
\* the first attempt and at most 3 retries.
C9_AtMostFourAttempts ==
    /\ attempts <= 4
    /\ retries <= 3
    /\ prog = "cdu" /\ pc \in {"run", "backoff"} =>
          attempts = retries + (IF pc = "backoff" THEN 1 ELSE 0)

\* The fourth attempt of one tick has been made.
C9_Witness ==
    prog = "cdu" /\ attempts = 4

\* C10: within one tick a further attempt is made only after an attempt
\* that failed with ApiFailure or PublicIPError; after an attempt that
\* succeeded or failed otherwise no further attempt is made in that tick.
C10_RetryOnlyAfterTransient ==
    [][(attempts > 0 /\ attempts' = attempts + 1)
          => outcome \in {"ApiFailure", "PublicIPError"}]_vars

\* A tick in which a second attempt followed a failed first one, and ended well.
C10_Witness ==
    prog = "cdu" /\ attempts = 2 /\ retries = 1 /\ outcome = "Ok"

\* The work of the current fire time is about to begin: the wait loop has
\* just been left.
WorkStarts == pc = "run" /\ attempts = 0

\* C16 (as claimed): the work of a tick never starts before its fire time
\* has passed, and when the wait for the fire time began before the fire
\* time (it slept at least once), the work starts no later than 999 ms
\* after the fire time.
C16_StartsWithinOnePoll ==
    WorkStarts =>
        /\ now > datetime
        /\ slept >= 0 => now <= datetime + PollMillis

\* C16 (amended): the work of a tick never starts before its fire time has
\* passed, and when the wait slept at least once, the work starts no later
\* than 999 ms plus the overrun of the last sleep after the fire time.
C16_StartsWithinOnePollAndOverrun ==
    WorkStarts =>
        /\ now > datetime
        /\ slept >= 0 => now <= datetime + PollMillis + slept

\* The work of a tick starts more than 999 ms after its fire time, after a
\* wait that began before the fire time.
C16_Witness ==
    /\ WorkStarts
    /\ slept > 0
    /\ now > datetime + PollMillis

\* C17: scheduled work is serialized. The work of a fire time is begun
\* exactly once, after that fire time was taken and before the next one is;
\* the wait for the next fire time begins only after the sequence of the
\* previous one has ended (with success: every other end leaves the loop);
\* and every retry is one more call of the whole unit of work.
C17_OneSequencePerFireTime ==
    /\ pc = "wait" => started = tick - 1
    /\ pc \in {"schedule", "run", "backoff", "exited"} => started = tick
    /\ (pc \in {"schedule", "wait"} /\ started > 0) =>
          attempts >= 1 /\ outcome = "Ok"
    /\ pc = "exited" => attempts >= 1 /\ outcome # "Ok"
    /\ (pc \in {"run", "backoff"} /\ attempts > 0) =>
          outcome \in {"ApiFailure", "PublicIPError"}
    /\ pc = "run" => attempts = retries
    /\ (pc \in {"backoff", "exited"} \/ (pc = "schedule" /\ started > 0)) =>
          attempts = retries + 1

\* The wait for the second fire time, after a first tick that needed a retry.
C17_Witness ==
    /\ prog = "cdu"
    /\ pc = "wait"
    /\ tick = 2
    /\ started = 1
    /\ retries >= 1

====
